---- MODULE Spec2Model ----
(***************************************************************************)
(* Express-Jobly: the partial-update SQL helper and the Company, Job and   *)
(* User data-access classes, over a relational store.                      *)
(*                                                                         *)
(* JavaScript objects are sequences of <<key, value>> pairs in insertion   *)
(* order; SQL text is a string, built and parsed character by character;   *)
(* a table is a set of rows whose fields carry the SQL column names.       *)
(***************************************************************************)
EXTENDS Integers, Sequences, FiniteSets, TLC

VARIABLES db, last

vars == <<db, last>>

(***************************************************************************)
(* Bounds of the model.                                                    *)
(***************************************************************************)
\* most keys a data mapping of an update carries
MaxKeys == 2
\* values the jobs.id sequence can hand out
MaxJobs == 2
\* rows the store holds, all tables together, when the three repositories
\* run side by side
MaxRows == 2
\* rows the applications table can hold for one (username, job_id) pair
MaxCopies == 2
\* rows the applications table holds where users apply for jobs
MaxApplications == 3

(***************************************************************************)
(* JavaScript values.                                                      *)
(***************************************************************************)
Undefined == [undefined |-> TRUE]

\* SQL NULL as node-postgres hands it back (JS null), per column type
NullInt == -1
NullText == "\\N"

Range(s) == {s[i] : i \in DOMAIN s}

\* the element of a one-element set
Only(S) == CHOOSE x \in S : TRUE

\* sequences over S of length 0..n
SeqsUpTo(S, n) == UNION {[1..k -> S] : k \in 0..n}

Digits == <<"0", "1", "2", "3", "4", "5", "6", "7", "8", "9">>

IsDigit(c) == c \in Range(Digits)

DigitValue(c) == (CHOOSE d \in DOMAIN Digits : Digits[d] = c) - 1

RECURSIVE ParseInt(_)
ParseInt(s) ==
  IF Len(s) = 0 THEN 0
  ELSE 10 * ParseInt(SubSeq(s, 1, Len(s) - 1)) + DigitValue(SubSeq(s, Len(s), Len(s)))

IsDigits(s) == Len(s) > 0 /\ \A i \in 1..Len(s) : IsDigit(SubSeq(s, i, i))

\* a canonical array index: the decimal form of a non-negative integer
IsArrayIndex(k) == IsDigits(k) /\ (Len(k) > 1 => SubSeq(k, 1, 1) # "0")

\* positions of obj in own-property order: array-index keys in ascending
\* numeric order, then the other keys in insertion order
RECURSIVE AscendingIndexKeys(_, _)
AscendingIndexKeys(obj, todo) ==
  IF todo = {} THEN <<>>
  ELSE LET m == CHOOSE i \in todo :
                  \A j \in todo : ParseInt(obj[i][1]) <= ParseInt(obj[j][1])
       IN <<m>> \o AscendingIndexKeys(obj, todo \ {m})

RECURSIVE InsertionOrder(_, _)
InsertionOrder(obj, i) ==
  IF i > Len(obj) THEN <<>>
  ELSE (IF IsArrayIndex(obj[i][1]) THEN <<>> ELSE <<i>>) \o InsertionOrder(obj, i + 1)

OwnPropertyOrder(obj) ==
  AscendingIndexKeys(obj, {i \in DOMAIN obj : IsArrayIndex(obj[i][1])})
    \o InsertionOrder(obj, 1)

ObjectKeys(obj) ==
  LET order == OwnPropertyOrder(obj) IN [n \in 1..Len(obj) |-> obj[order[n]][1]]

ObjectValues(obj) ==
  LET order == OwnPropertyOrder(obj) IN [n \in 1..Len(obj) |-> obj[order[n]][2]]

HasKey(obj, k) == \E i \in DOMAIN obj : obj[i][1] = k

\* obj[k]
Get(obj, k) ==
  IF HasKey(obj, k) THEN obj[CHOOSE i \in DOMAIN obj : obj[i][1] = k][2]
  ELSE Undefined

\* obj[k] = v, keeping the key's place when it is already there
Put(obj, k, v) ==
  IF HasKey(obj, k)
    THEN [i \in DOMAIN obj |-> IF obj[i][1] = k THEN <<k, v>> ELSE obj[i]]
    ELSE Append(obj, <<k, v>>)

\* jsToSql[colName] || colName, for a mapping whose values are strings
ColumnOf(jsToSql, colName) ==
  IF HasKey(jsToSql, colName) /\ Get(jsToSql, colName) # ""
    THEN Get(jsToSql, colName)
    ELSE colName

RECURSIVE Join(_, _)
Join(strs, sep) ==
  IF Len(strs) = 0 THEN ""
  ELSE IF Len(strs) = 1 THEN strs[1]
  ELSE strs[1] \o sep \o Join(Tail(strs), sep)

(***************************************************************************)
(* Errors.                                                                 *)
(***************************************************************************)
BadRequestError(msg) == [name |-> "BadRequestError", message |-> msg]
NotFoundError(msg) == [name |-> "NotFoundError", message |-> msg]
UnauthorizedError(msg) == [name |-> "UnauthorizedError", message |-> msg]
\* an error raised by the store, passed on as it is (message: the SQLSTATE)
DatabaseError(code) == [name |-> "error", message |-> code]

Return(v) == [kind |-> "return", value |-> v]
Throw(e) == [kind |-> "throw", error |-> e]

(***************************************************************************)
(* helpers/sql.js                                                          *)
(***************************************************************************)
\* faulty variant: the placeholders numbered from the array index, $0 first
sqlForPartialUpdate_FromZero(dataToUpdate, jsToSql) ==
  Only({
    LET cols == [idx \in 1..Len(keys) |->
                   "\"" \o ColumnOf(jsToSql, keys[idx]) \o "\"=$" \o ToString(idx - 1)]
    IN IF Len(keys) = 0 THEN Throw(BadRequestError("No data"))
       ELSE Return([setCols |-> Join(cols, ", "),
                    values |-> ObjectValues(dataToUpdate)])
    : keys \in {ObjectKeys(dataToUpdate)}})

sqlForPartialUpdate(dataToUpdate, jsToSql) ==
  Only({
    LET cols == [idx \in 1..Len(keys) |->
                   "\"" \o ColumnOf(jsToSql, keys[idx]) \o "\"=$" \o ToString(idx)]
    IN IF Len(keys) = 0 THEN Throw(BadRequestError("No data"))
       ELSE Return([setCols |-> Join(cols, ", "),
                    values |-> ObjectValues(dataToUpdate)])
    : keys \in {ObjectKeys(dataToUpdate)}})

(***************************************************************************)
(* SQL text, as the store reads it.                                        *)
(***************************************************************************)
StartsWith(s, p) == Len(s) >= Len(p) /\ SubSeq(s, 1, Len(p)) = p

DropPrefix(s, n) == SubSeq(s, n + 1, Len(s))

\* first position of sub in s at or after i, 0 when there is none
RECURSIVE IndexFrom(_, _, _)
IndexFrom(s, sub, i) ==
  IF i + Len(sub) - 1 > Len(s) THEN 0
  ELSE IF SubSeq(s, i, i + Len(sub) - 1) = sub THEN i
  ELSE IndexFrom(s, sub, i + 1)

IndexOf(s, sub) == IndexFrom(s, sub, 1)

RECURSIVE Split(_, _)
Split(s, sep) ==
  LET i == IndexOf(s, sep)
  IN IF i = 0 THEN <<s>>
     ELSE <<SubSeq(s, 1, i - 1)>> \o Split(DropPrefix(s, i + Len(sep) - 1), sep)

\* "$3" -> 3
ParsePlaceholder(s) == ParseInt(DropPrefix(s, 1))

\* one assignment of a SET clause, "col"=$n
ParseAssignment(seg) ==
  LET close == IndexOf(DropPrefix(seg, 1), "\"") + 1
  IN [col |-> SubSeq(seg, 2, close - 1),
      param |-> ParsePlaceholder(DropPrefix(seg, close + 1))]

ParseSetClause(setCols) ==
  LET segs == Split(setCols, ", ")
  IN [i \in 1..Len(segs) |-> ParseAssignment(segs[i])]

(***************************************************************************)
(* The store: tables and their constraints.                                *)
(***************************************************************************)
CompanyColumns == {"handle", "name", "description", "num_employees", "logo_url"}
JobColumns == {"id", "title", "salary", "equity", "company_handle"}
UserColumns == {"username", "password", "first_name", "last_name", "email", "is_admin"}

\* an application row is [username, job_id, copy]: copy tells apart the rows
\* of one (username, job_id) pair where the table holds the pair more than once
EmptyStore ==
  [companies |-> {}, jobs |-> {}, jobs_id_seq |-> 0, users |-> {},
   applications |-> {}]

\* a primary key holds no value twice
UniqueKey(table, key) == \A r1, r2 \in table : r1[key] = r2[key] => r1 = r2

\* every job references a company
JobsReferenceCompanies(d) ==
  \A j \in d.jobs : \E c \in d.companies : c.handle = j.company_handle

\* every application references a user and a job
ApplicationsReference(d) ==
  \A a \in d.applications :
    /\ \E u \in d.users : u.username = a.username
    /\ \E j \in d.jobs : j.id = a.job_id

\* SQLSTATE of the constraint the tables d violate, "" when they violate none
ConstraintViolation(d) ==
  IF ~(UniqueKey(d.companies, "handle") /\ UniqueKey(d.jobs, "id")
         /\ UniqueKey(d.users, "username"))
    THEN "23505"
  ELSE IF ~(JobsReferenceCompanies(d) /\ ApplicationsReference(d)) THEN "23503"
  ELSE ""

\* db.query of a statement that leaves the tables as d2, RETURNING rows
Write(d2, rows) ==
  IF ConstraintViolation(d2) # ""
    THEN [error |-> ConstraintViolation(d2), rows |-> {}]
    ELSE [error |-> "", db |-> d2, rows |-> rows]

\* INSERT INTO <table> ... RETURNING ..., for a table with primary key keyCol
ExecInsert(d, tableName, keyCol, row) ==
  IF \E r \in d[tableName] : r[keyCol] = row[keyCol]
    THEN [error |-> "23505", rows |-> {}]
    ELSE Write([d EXCEPT ![tableName] = @ \cup {row}], {row})

\* UPDATE <table> SET <setCols> WHERE <keyCol> = <keyVarIdx> RETURNING ...
\* over the parameters params; Tables(rows) is the store with the table replaced
UpdatedRow(r, asg, params) ==
  [c \in DOMAIN r |->
     IF \E i \in DOMAIN asg : asg[i].col = c
       THEN params[asg[CHOOSE i \in DOMAIN asg : asg[i].col = c].param]
       ELSE r[c]]

\* faulty variant: the UPDATE without its WHERE clause
ExecUpdate_EveryRow(d, tableName, setCols, keyCol, keyVarIdx, params) ==
  Only({
    LET table == d[tableName]
        columns == IF tableName = "companies" THEN CompanyColumns
                   ELSE IF tableName = "jobs" THEN JobColumns
                   ELSE UserColumns
        key == params[ParsePlaceholder(keyVarIdx)]
        new == {UpdatedRow(r, asg, params) : r \in table}
    IN IF \E i \in DOMAIN asg : asg[i].col \notin columns
         THEN [error |-> "42703", rows |-> {}]
       ELSE IF \E i, j \in DOMAIN asg : i # j /\ asg[i].col = asg[j].col
         THEN [error |-> "42601", rows |-> {}]
       ELSE IF Cardinality(new) # Cardinality(table)
         THEN [error |-> "23505", rows |-> {}]
       ELSE Write([d EXCEPT ![tableName] = new], {r \in new : r[keyCol] = key})
    : asg \in {ParseSetClause(setCols)}})

ExecUpdate(d, tableName, setCols, keyCol, keyVarIdx, params) ==
  Only({
    LET table == d[tableName]
        columns == IF tableName = "companies" THEN CompanyColumns
                   ELSE IF tableName = "jobs" THEN JobColumns
                   ELSE UserColumns
        key == params[ParsePlaceholder(keyVarIdx)]
        hit == {r \in table : r[keyCol] = key}
        new == {UpdatedRow(r, asg, params) : r \in hit}
    IN IF \E i \in DOMAIN asg : asg[i].col \notin columns
         THEN [error |-> "42703", rows |-> {}]
       ELSE IF \E i, j \in DOMAIN asg : i # j /\ asg[i].col = asg[j].col
         THEN [error |-> "42601", rows |-> {}]
       ELSE IF \/ Cardinality(new) # Cardinality(hit)
               \/ \E n \in new, r \in table \ hit : n[keyCol] = r[keyCol]
         THEN [error |-> "23505", rows |-> {}]
       ELSE Write([d EXCEPT ![tableName] = (table \ hit) \cup new], new)
    : asg \in {ParseSetClause(setCols)}})

\* faulty variant: the lookup finds nothing
SelectByKey_Nothing(table, keyCol, key) == {}

\* SELECT ... FROM <table> WHERE <keyCol> = $1
SelectByKey(table, keyCol, key) == {r \in table : r[keyCol] = key}

\* faulty variant: the password column among the returned ones
Returning_WithPassword(tableName, r) ==
  IF tableName = "companies"
    THEN [handle |-> r.handle, name |-> r.name, description |-> r.description,
          numEmployees |-> r.num_employees, logoUrl |-> r.logo_url]
  ELSE IF tableName = "jobs"
    THEN [id |-> r.id, title |-> r.title, salary |-> r.salary, equity |-> r.equity,
          companyHandle |-> r.company_handle]
  ELSE [username |-> r.username, password |-> r.password, firstName |-> r.first_name,
        lastName |-> r.last_name, email |-> r.email, isAdmin |-> r.is_admin]

\* the RETURNING list of the statements on a table, with its AS aliases
Returning(tableName, r) ==
  IF tableName = "companies"
    THEN [handle |-> r.handle, name |-> r.name, description |-> r.description,
          numEmployees |-> r.num_employees, logoUrl |-> r.logo_url]
  ELSE IF tableName = "jobs"
    THEN [id |-> r.id, title |-> r.title, salary |-> r.salary, equity |-> r.equity,
          companyHandle |-> r.company_handle]
  ELSE [username |-> r.username, firstName |-> r.first_name,
        lastName |-> r.last_name, email |-> r.email, isAdmin |-> r.is_admin]

\* rows[0] of a result with at most one row
FirstRow(rows) == IF rows = {} THEN Undefined ELSE CHOOSE r \in rows : TRUE

\* the orders in which a row set can come back
RECURSIVE RowOrders(_)
RowOrders(rows) ==
  IF rows = {} THEN {<<>>}
  ELSE UNION {{<<r>> \o s : s \in RowOrders(rows \ {r})} : r \in rows}

\* the response a call leaves behind until the caller has taken it: what was
\* called, with what, on which tables, what came back, and how many
\* statements it sent to the store
Call(op, args, result, queries) ==
  [op |-> op, args |-> args, before |-> db, result |-> result, queries |-> queries]

NoCall == [op |-> "none"]

\* a request is served to its end before the next one is made
Idle == last.op = "none"

(***************************************************************************)
(* Text comparison in the store: ILIKE and ORDER BY.                       *)
(***************************************************************************)
UpperCase == "ABCDEFGHIJKLMNOPQRSTUVWXYZ"
LowerCase == "abcdefghijklmnopqrstuvwxyz"

LowerChar(c) ==
  IF IndexOf(UpperCase, c) = 0 THEN c
  ELSE SubSeq(LowerCase, IndexOf(UpperCase, c), IndexOf(UpperCase, c))

RECURSIVE Lower(_)
Lower(s) ==
  IF Len(s) = 0 THEN "" ELSE LowerChar(SubSeq(s, 1, 1)) \o Lower(DropPrefix(s, 1))

\* value ILIKE '%text%', for a text without wildcards
ILikeContains(value, text) == text = "" \/ IndexOf(Lower(value), Lower(text)) > 0

\* rank of a character in the ordering of names (letters of one case, digits)
Collation == " 0123456789" \o UpperCase \o LowerCase

RECURSIVE TextLeq(_, _)
TextLeq(a, b) ==
  IF Len(a) = 0 THEN TRUE
  ELSE IF Len(b) = 0 THEN FALSE
  ELSE LET ra == IndexOf(Collation, SubSeq(a, 1, 1))
           rb == IndexOf(Collation, SubSeq(b, 1, 1))
       IN IF ra # rb THEN ra < rb ELSE TextLeq(DropPrefix(a, 1), DropPrefix(b, 1))

(***************************************************************************)
(* models/company.js                                                       *)
(***************************************************************************)
Handles == {"c1", "c2"}
Names == {"Acme", "Bolt"}
Descriptions == {"Desc"}
Employees == {1, 2}
LogoUrls == {"/logo.png"}

\* num_employees AS "numEmployees", logo_url AS "logoUrl"
CompanyRecord(r) == Returning("companies", r)

Company_create ==
  Idle /\ \E handle \in Handles, name \in Names, description \in Descriptions,
     numEmployees \in Employees, logoUrl \in LogoUrls :
    LET args == [handle |-> handle, name |-> name, description |-> description,
                 numEmployees |-> numEmployees, logoUrl |-> logoUrl]
        duplicateCheck == SelectByKey(db.companies, "handle", handle)
        row == [handle |-> handle, name |-> name, description |-> description,
                num_employees |-> numEmployees, logo_url |-> logoUrl]
        result == ExecInsert(db, "companies", "handle", row)
    IN IF duplicateCheck # {}
         THEN /\ last' = Call("Company.create", args,
                    Throw(BadRequestError("Duplicate company: " \o handle)), 1)
              /\ UNCHANGED db
       ELSE IF result.error # ""
         THEN /\ last' = Call("Company.create", args,
                    Throw(DatabaseError(result.error)), 2)
              /\ UNCHANGED db
       ELSE /\ db' = result.db
            /\ last' = Call("Company.create", args,
                    Return(CompanyRecord(FirstRow(result.rows))), 2)

\* the criteria objects handed to Company.findAll
NameTexts == {"O"}
EmployeeBounds == 0..2

CompanyQueries ==
  {n \o lo \o hi :
     n \in {<<>>} \cup {<<<<"name", t>>>> : t \in NameTexts},
     lo \in {<<>>} \cup {<<<<"minEmployees", v>>>> : v \in EmployeeBounds},
     hi \in {<<>>} \cup {<<<<"maxEmployees", v>>>> : v \in EmployeeBounds}}

\* JavaScript truthiness of query[k], for a text and for a number
TruthyText(query, k) == HasKey(query, k) /\ Get(query, k) # ""
TruthyNumber(query, k) == HasKey(query, k) /\ Get(query, k) # 0

\* whereStatement += (whereStatement.length === 0 ? "WHERE ..." : "and ...")
AddCondition(whereStatement, cond) ==
  whereStatement \o (IF Len(whereStatement) = 0 THEN "WHERE " ELSE "and ") \o cond

CompanyWhereStatement(query) ==
  LET w1 == IF TruthyText(query, "name")
              THEN AddCondition("", "name ilike '%" \o Get(query, "name") \o "%'")
              ELSE ""
      w2 == IF TruthyNumber(query, "minEmployees")
              THEN AddCondition(w1, "num_employees >= "
                                      \o ToString(Get(query, "minEmployees")))
              ELSE w1
  IN IF TruthyNumber(query, "maxEmployees")
       THEN AddCondition(w2, "num_employees <= " \o ToString(Get(query, "maxEmployees")))
       ELSE w2

\* length of the run of digits s starts with
RECURSIVE DigitRun(_)
DigitRun(s) ==
  IF Len(s) > 0 /\ IsDigit(SubSeq(s, 1, 1)) THEN 1 + DigitRun(DropPrefix(s, 1)) ELSE 0

\* the conditions of a WHERE clause over companies, as the store reads them:
\* a sequence of [col, op, arg, junk], junk when a number runs into the next word
RECURSIVE ParseConditions(_)
ParseConditions(s) ==
  LET isText == StartsWith(s, "name ilike '%")
      body == IF isText THEN DropPrefix(s, Len("name ilike '%"))
              ELSE DropPrefix(s, Len("num_employees >= "))
      n == IF isText THEN IndexOf(body, "%'") - 1 ELSE DigitRun(body)
      after == DropPrefix(body, IF isText THEN n + 2 ELSE n)
      cond == IF isText
                THEN [col |-> "name", op |-> "ilike", arg |-> SubSeq(body, 1, n),
                      junk |-> FALSE]
                ELSE [col |-> "num_employees",
                      op |-> SubSeq(s, Len("num_employees ") + 1, Len("num_employees >=")),
                      arg |-> ParseInt(SubSeq(body, 1, n)),
                      junk |-> Len(after) > 0]
  IN <<cond>> \o (IF StartsWith(after, "and ")
                    THEN ParseConditions(DropPrefix(after, Len("and ")))
                    ELSE <<>>)

ParseWhere(whereStatement) ==
  IF StartsWith(whereStatement, "WHERE ")
    THEN ParseConditions(DropPrefix(whereStatement, Len("WHERE ")))
    ELSE <<>>

Satisfies(r, cond) ==
  IF cond.op = "ilike" THEN ILikeContains(r[cond.col], cond.arg)
  ELSE IF cond.op = ">=" THEN r[cond.col] >= cond.arg
  ELSE r[cond.col] <= cond.arg

\* a number that runs into the following word ("2and") is two tokens for a
\* server before PostgreSQL 15 and a syntax error from 15 on
TrailingJunk(conds) == \E i \in DOMAIN conds : conds[i].junk

\* what Company.findAll(query) can return or throw on the tables d, with
\* the number of statements sent
CompanyFindAll(d, query) ==
  IF /\ TruthyNumber(query, "minEmployees")
     /\ TruthyNumber(query, "maxEmployees")
     /\ Get(query, "minEmployees") > Get(query, "maxEmployees")
    THEN {[result |-> Throw(BadRequestError(
                        "Min Employees cannot be greater than Max Employees")),
           queries |-> 0]}
    ELSE UNION {
      {[result |-> Throw(DatabaseError("42601")), queries |-> 1]
         : x \in IF TrailingJunk(conds) THEN {1} ELSE {}}
        \cup {[result |-> Return([i \in DOMAIN rows |-> CompanyRecord(rows[i])]),
               queries |-> 1]
               : rows \in {s \in RowOrders({r \in d.companies :
                                  \A i \in DOMAIN conds : Satisfies(r, conds[i])}) :
                             \A i, j \in DOMAIN s :
                               i < j => TextLeq(s[i].name, s[j].name)}}
      : conds \in {ParseWhere(CompanyWhereStatement(query))}}

Company_findAll ==
  Idle /\ \E query \in CompanyQueries :
    \E done \in CompanyFindAll(db, query) :
      /\ UNCHANGED db
      /\ last' = Call("Company.findAll", query, done.result, done.queries)

\* the row of a company joined with a job's columns
Joined(c, id, title, salary, equity) ==
  [handle |-> c.handle, name |-> c.name, description |-> c.description,
   numEmployees |-> c.num_employees, logoUrl |-> c.logo_url,
   id |-> id, title |-> title, salary |-> salary, equity |-> equity]

\* faulty variant: the join without its ON condition
CompanyJoinJobs_NoCondition(d, companyHandle) ==
  UNION {IF d.jobs = {}
           THEN {Joined(c, NullInt, NullText, NullInt, NullText)}
           ELSE {Joined(c, j.id, j.title, j.salary, j.equity) : j \in d.jobs}
         : c \in {c \in d.companies : c.handle = companyHandle}}

\* companies c LEFT JOIN jobs j ON c.handle = j.company_handle WHERE handle = $1
CompanyJoinJobs(d, companyHandle) ==
  LET Of(c) == {j \in d.jobs : j.company_handle = c.handle}
  IN UNION {IF Of(c) = {}
              THEN {Joined(c, NullInt, NullText, NullInt, NullText)}
              ELSE {Joined(c, j.id, j.title, j.salary, j.equity) : j \in Of(c)}
            : c \in {c \in d.companies : c.handle = companyHandle}}

\* !r.id
NoId(r) == r.id = NullInt \/ r.id = 0

\* companyRes.rows.map(...)
JobsOf(rows) ==
  [i \in DOMAIN rows |->
     IF NoId(rows[i]) THEN Undefined
     ELSE [id |-> rows[i].id, title |-> rows[i].title, salary |-> rows[i].salary,
           equity |-> rows[i].equity]]

\* what Company.get(companyHandle) can return or throw on the tables d
CompanyGet(d, companyHandle) ==
  IF CompanyJoinJobs(d, companyHandle) = {}
    THEN {Throw(NotFoundError("No company: " \o companyHandle))}
    ELSE {Return([handle |-> rows[1].handle, name |-> rows[1].name,
                  description |-> rows[1].description,
                  numEmployees |-> rows[1].numEmployees,
                  logoUrl |-> rows[1].logoUrl, jobs |-> JobsOf(rows)])
          : rows \in RowOrders(CompanyJoinJobs(d, companyHandle))}

Company_get ==
  Idle /\ \E companyHandle \in Handles :
    \E result \in CompanyGet(db, companyHandle) :
      /\ UNCHANGED db
      /\ last' = Call("Company.get", companyHandle, result, 1)

\* objects of at most n properties, each property one of pairs
Objects(pairs, n) ==
  {o \in SeqsUpTo(pairs, n) : \A i, j \in DOMAIN o : o[i][1] = o[j][1] => i = j}

Property(k, values) == {<<k, v>> : v \in values}

CompanyData ==
  Objects(Property("name", Names) \cup Property("numEmployees", Employees)
            \cup Property("logoUrl", LogoUrls), MaxKeys)

CompanyJsToSql == <<<<"numEmployees", "num_employees">>, <<"logoUrl", "logo_url">>>>

\* the shared body of the three update methods, after the clause is built:
\* the UPDATE statement, then the row it returned or NotFound
UpdateOutcome(d, clause, tableName, keyCol, key, missing) ==
  IF clause.kind = "throw"
    THEN [db |-> d, result |-> clause, queries |-> 0]
    ELSE Only({
      IF result.error # ""
        THEN [db |-> d, result |-> Throw(DatabaseError(result.error)), queries |-> 1]
        ELSE [db |-> result.db,
              result |-> IF result.rows = {} THEN Throw(NotFoundError(missing))
                         ELSE Return(Returning(tableName, FirstRow(result.rows))),
              queries |-> 1]
      : result \in {ExecUpdate(d, tableName, clause.value.setCols, keyCol,
                               "$" \o ToString(Len(clause.value.values) + 1),
                               Append(clause.value.values, key))}})

UpdateCall(op, args, built, tableName, keyCol, key, missing) ==
  \E clause \in {built} :
    \E done \in {UpdateOutcome(db, clause, tableName, keyCol, key, missing)} :
      /\ db' = done.db
      /\ last' = Call(op, args, done.result, done.queries)

Company_update ==
  Idle /\ \E handle \in Handles, data \in CompanyData :
    UpdateCall("Company.update", [handle |-> handle, data |-> data],
               sqlForPartialUpdate(data, CompanyJsToSql),
               "companies", "handle", handle,
               "No company: " \o handle)

\* ON DELETE CASCADE of jobs.company_handle, applications.username and
\* applications.job_id
CascadeDelete(d) ==
  LET jobs == {j \in d.jobs : \E c \in d.companies : c.handle = j.company_handle}
  IN [d EXCEPT !.jobs = jobs,
               !.applications =
                 {a \in @ : /\ \E u \in d.users : u.username = a.username
                            /\ \E j \in jobs : j.id = a.job_id}]

\* what Company.remove(handle) does on the tables d
CompanyRemove(d, handle) ==
  LET gone == {r \in d.companies : r.handle = handle}
  IN [db |-> CascadeDelete([d EXCEPT !.companies = @ \ gone]),
      result |-> IF gone = {} THEN Throw(NotFoundError("No company: " \o handle))
                 ELSE Return(Undefined)]

Company_remove ==
  Idle /\ \E handle \in Handles :
    /\ db' = CompanyRemove(db, handle).db
    /\ last' = Call("Company.remove", handle, CompanyRemove(db, handle).result, 1)

(***************************************************************************)
(* models/job.js                                                           *)
(***************************************************************************)
Titles == {"Dev", "Ops"}
Salaries == {100}
Equities == {"0", "0.5"}
JobIds == 1..MaxJobs

\* company_handle AS "companyHandle"
JobRecord(r) == Returning("jobs", r)

Job_create ==
  Idle /\ \E title \in Titles, salary \in Salaries, equity \in Equities,
     companyHandle \in Handles :
    LET args == [title |-> title, salary |-> salary, equity |-> equity,
                 companyHandle |-> companyHandle]
        \* nextval('jobs_id_seq'): the value is used up even when the insert fails
        d == [db EXCEPT !.jobs_id_seq = @ + 1]
        row == [id |-> d.jobs_id_seq, title |-> title, salary |-> salary,
                equity |-> equity, company_handle |-> companyHandle]
        result == ExecInsert(d, "jobs", "id", row)
    IN /\ db.jobs_id_seq < MaxJobs
       /\ IF result.error # ""
            THEN /\ db' = d
                 /\ last' = Call("Job.create", args, Throw(DatabaseError(result.error)), 1)
            ELSE /\ db' = result.db
                 /\ last' = Call("Job.create", args,
                      Return(JobRecord(FirstRow(result.rows))), 1)

\* the criteria objects handed to Job.findAll. The booleans true and false
\* are written JsTrue and JsFalse, apart from the strings "true" and "false"
\* a query string carries.
JsTrue == "<true>"
JsFalse == "<false>"
TitleTexts == {"d"}
SalaryBounds == {0, 100, 101}
HasEquityValues == {JsTrue, JsFalse, "true", "false"}

JobQueries ==
  {t \o lo \o e :
     t \in {<<>>} \cup {<<<<"title", v>>>> : v \in TitleTexts},
     lo \in {<<>>} \cup {<<<<"minSalary", v>>>> : v \in SalaryBounds},
     e \in {<<>>} \cup {<<<<"hasEquity", v>>>> : v \in HasEquityValues}}

\* JavaScript truthiness of query.hasEquity
TruthyFlag(query, k) == HasKey(query, k) /\ Get(query, k) \notin {JsFalse, ""}

JobWhereStatement(query) ==
  LET w1 == IF TruthyText(query, "title")
              THEN AddCondition("", "title ilike '%" \o Get(query, "title") \o "%'")
              ELSE ""
      w2 == IF TruthyNumber(query, "minSalary")
              THEN AddCondition(w1, "salary >= " \o ToString(Get(query, "minSalary")))
              ELSE w1
  IN IF TruthyFlag(query, "hasEquity") /\ Get(query, "hasEquity") = "true"
       THEN AddCondition(w2, "equity > 0")
       ELSE w2

\* the conditions of a WHERE clause over jobs, as the store reads them
RECURSIVE ParseJobConditions(_)
ParseJobConditions(s) ==
  LET isText == StartsWith(s, "title ilike '%")
      col == IF isText THEN "title"
             ELSE IF StartsWith(s, "salary ") THEN "salary" ELSE "equity"
      op == IF isText THEN "ilike"
            ELSE IF col = "salary" THEN ">=" ELSE ">"
      body == DropPrefix(s, IF isText THEN Len("title ilike '%")
                            ELSE Len(col) + Len(op) + 2)
      n == IF isText THEN IndexOf(body, "%'") - 1 ELSE DigitRun(body)
      after == DropPrefix(body, IF isText THEN n + 2 ELSE n)
      cond == [col |-> col, op |-> op,
               arg |-> IF isText THEN SubSeq(body, 1, n) ELSE ParseInt(SubSeq(body, 1, n)),
               junk |-> ~isText /\ Len(after) > 0]
  IN <<cond>> \o (IF StartsWith(after, "and ")
                    THEN ParseJobConditions(DropPrefix(after, Len("and ")))
                    ELSE <<>>)

ParseJobWhere(whereStatement) ==
  IF StartsWith(whereStatement, "WHERE ")
    THEN ParseJobConditions(DropPrefix(whereStatement, Len("WHERE ")))
    ELSE <<>>

\* a NUMERIC value, which the client hands over as text, is above the integer n
NumericAbove(text, n) ==
  LET dot == IndexOf(text, ".")
      whole == ParseInt(IF dot = 0 THEN text ELSE SubSeq(text, 1, dot - 1))
      fraction == IF dot = 0 THEN "" ELSE DropPrefix(text, dot)
  IN \/ whole > n
     \/ whole = n /\ \E i \in 1..Len(fraction) : SubSeq(fraction, i, i) \notin {"0"}

\* a comparison with NULL is not true
JobSatisfies(r, cond) ==
  IF cond.op = "ilike" THEN ILikeContains(r.title, cond.arg)
  ELSE IF cond.op = ">=" THEN r.salary # NullInt /\ r.salary >= cond.arg
  ELSE r.equity # NullText /\ NumericAbove(r.equity, cond.arg)

\* what Job.findAll(query) can return or throw on the tables d
JobFindAll(d, query) ==
  UNION {
    {Throw(DatabaseError("42601")) : x \in IF TrailingJunk(conds) THEN {1} ELSE {}}
      \cup {Return([i \in DOMAIN rows |-> JobRecord(rows[i])])
             : rows \in RowOrders({r \in d.jobs :
                          \A i \in DOMAIN conds : JobSatisfies(r, conds[i])})}
    : conds \in {ParseJobWhere(JobWhereStatement(query))}}

Job_findAll ==
  Idle /\ \E query \in JobQueries :
    \E result \in JobFindAll(db, query) :
      /\ UNCHANGED db
      /\ last' = Call("Job.findAll", query, result, 1)

\* what Job.get(id) returns or throws on the tables d
JobGet(d, id) ==
  LET job == FirstRow(SelectByKey(d.jobs, "id", id))
  IN IF job = Undefined THEN Throw(NotFoundError("No job id: " \o ToString(id)))
     ELSE Return(JobRecord(job))

Job_get ==
  Idle /\ \E id \in JobIds :
    /\ UNCHANGED db
    /\ last' = Call("Job.get", id, JobGet(db, id), 1)

JobData ==
  Objects(Property("title", Titles) \cup Property("salary", Salaries)
            \cup Property("equity", {"0.5"}) \cup Property("id", JobIds)
            \cup Property("companyHandle", {"c2"}), MaxKeys)

JobJsToSql == <<<<"title", "title">>, <<"salary", "salary">>, <<"equity", "equity">>>>

Job_update ==
  Idle /\ \E id \in JobIds, data \in JobData :
    UpdateCall("Job.update", [id |-> id, data |-> data],
               sqlForPartialUpdate(data, JobJsToSql),
               "jobs", "id", id, "No job id: " \o ToString(id))

\* what Job.remove(id) does on the tables d
JobRemove(d, id) ==
  LET gone == {r \in d.jobs : r.id = id}
  IN [db |-> CascadeDelete([d EXCEPT !.jobs = @ \ gone]),
      result |-> IF gone = {} THEN Throw(NotFoundError("No job id: " \o ToString(id)))
                 ELSE Return(Undefined)]

Job_remove ==
  Idle /\ \E id \in JobIds :
    /\ db' = JobRemove(db, id).db
    /\ last' = Call("Job.remove", id, JobRemove(db, id).result, 1)

(***************************************************************************)
(* models/user.js                                                          *)
(***************************************************************************)
Usernames == {"u1", "u2"}
Passwords == {"", "pw1", "pw2"}
FirstNames == {"Ann"}
LastNames == {"Lee"}
Emails == {"ann@lee.io"}
\* the salts bcrypt can draw
Salts == {"a", "b"}

\* bcrypt.hash(password, BCRYPT_WORK_FACTOR) with the salt drawn
bcrypt_hash(password, salt) == "$2b$" \o salt \o "$" \o password

\* bcrypt.compare(password, hash): false for a text that is no hash
bcrypt_compare(password, hash) == \E salt \in Salts : bcrypt_hash(password, salt) = hash

\* first_name AS "firstName", last_name AS "lastName", is_admin AS "isAdmin";
\* the password column is not among the returned ones
UserRecord(r) == Returning("users", r)

\* faulty variant: a lookup miss reported as such
authenticate_NotFound(d, username, password) ==
  LET user == FirstRow(SelectByKey(d.users, "username", username))
  IN IF user = Undefined THEN Throw(NotFoundError("No user: " \o username))
     ELSE IF bcrypt_compare(password, user.password) THEN Return(UserRecord(user))
     ELSE Throw(UnauthorizedError("Invalid username/password"))

authenticate(d, username, password) ==
  LET user == FirstRow(SelectByKey(d.users, "username", username))
  IN IF user # Undefined /\ bcrypt_compare(password, user.password)
       THEN Return(UserRecord(user))
       ELSE Throw(UnauthorizedError("Invalid username/password"))

User_authenticate ==
  Idle /\ \E username \in Usernames, password \in Passwords :
    /\ UNCHANGED db
    /\ last' = Call("User.authenticate", [username |-> username, password |-> password],
                    authenticate(db, username, password), 1)

User_register ==
  Idle /\ \E username \in Usernames, password \in Passwords, firstName \in FirstNames,
     lastName \in LastNames, email \in Emails, isAdmin \in BOOLEAN, salt \in Salts :
    LET args == [username |-> username, password |-> password,
                 firstName |-> firstName, lastName |-> lastName, email |-> email,
                 isAdmin |-> isAdmin]
        duplicateCheck == SelectByKey(db.users, "username", username)
        hashedPassword == bcrypt_hash(password, salt)
        row == [username |-> username, password |-> hashedPassword,
                first_name |-> firstName, last_name |-> lastName, email |-> email,
                is_admin |-> isAdmin]
        result == ExecInsert(db, "users", "username", row)
    IN IF duplicateCheck # {}
         THEN /\ last' = Call("User.register", args,
                    Throw(BadRequestError("Duplicate username: " \o username)), 1)
              /\ UNCHANGED db
       ELSE IF result.error # ""
         THEN /\ last' = Call("User.register", args,
                    Throw(DatabaseError(result.error)), 2)
              /\ UNCHANGED db
       ELSE /\ db' = result.db
            /\ last' = Call("User.register", args,
                    Return(UserRecord(FirstRow(result.rows))), 2)

UserData ==
  Objects(Property("password", Passwords) \cup Property("firstName", FirstNames)
            \cup Property("isAdmin", BOOLEAN), MaxKeys)

UserJsToSql ==
  <<<<"firstName", "first_name">>, <<"lastName", "last_name">>,
    <<"isAdmin", "is_admin">>>>

\* faulty variant: the password hashed whether or not the data carries one
HashPassword_Always(data, salt) ==
  Put(data, "password",
      bcrypt_hash(IF HasKey(data, "password") THEN Get(data, "password") ELSE "", salt))

\* if (data.password) data.password = await bcrypt.hash(...)
HashPassword(data, salt) ==
  IF TruthyText(data, "password")
    THEN Put(data, "password", bcrypt_hash(Get(data, "password"), salt))
    ELSE data

User_update ==
  Idle /\ \E username \in Usernames, data \in UserData :
    \E salt \in IF TruthyText(data, "password") THEN Salts ELSE {""} :
    UpdateCall("User.update", [username |-> username, data |-> data],
               sqlForPartialUpdate(HashPassword(data, salt), UserJsToSql),
               "users", "username", username,
               "No user: " \o username)

\* faulty variant: the DELETE without its WHERE clause
UserRemove_EveryUser(d, username) ==
  [db |-> CascadeDelete([d EXCEPT !.users = {}]),
   result |-> IF \A r \in d.users : r.username # username
                THEN Throw(NotFoundError("No user: " \o username))
                ELSE Return(Undefined)]

\* what User.remove(username) does on the tables d
UserRemove(d, username) ==
  LET gone == {r \in d.users : r.username = username}
  IN [db |-> CascadeDelete([d EXCEPT !.users = @ \ gone]),
      result |-> IF gone = {} THEN Throw(NotFoundError("No user: " \o username))
                 ELSE Return(Undefined)]

User_remove ==
  Idle /\ \E username \in Usernames :
    /\ db' = UserRemove(db, username).db
    /\ last' = Call("User.remove", username, UserRemove(db, username).result, 1)

\* rows sorted by username, rows of one username in any order
OrderedByUsername(rows) ==
  {s \in RowOrders(rows) :
     \A i, j \in DOMAIN s : i < j => TextLeq(s[i].username, s[j].username)}

\* faulty variant: the jobId of every row, whatever its username
JobsApplied_OfEveryUser(jobs, username) == [i \in DOMAIN jobs |-> jobs[i].jobId]

\* the jobId of the rows of jobs that carry the username, in the order of jobs
RECURSIVE JobsApplied(_, _)
JobsApplied(jobs, username) ==
  IF Len(jobs) = 0 THEN <<>>
  ELSE (IF Head(jobs).username = username THEN <<Head(jobs).jobId>> ELSE <<>>)
         \o JobsApplied(Tail(jobs), username)

\* SELECT a.username, a.job_id AS "jobId"
\* FROM applications a LEFT JOIN users u ON a.username = u.username
ApplicationsJoinUsers(d) ==
  {[username |-> a.username, jobId |-> a.job_id, copy |-> a.copy] : a \in d.applications}

\* what User.findAll() can return on the tables d
UserFindAll(d) ==
  {[i \in DOMAIN results |->
      [username |-> results[i].username, firstName |-> results[i].first_name,
       lastName |-> results[i].last_name, email |-> results[i].email,
       isAdmin |-> results[i].is_admin,
       jobsApplied |-> JobsApplied(jobs, results[i].username)]]
   : results \in OrderedByUsername(d.users),
     jobs \in OrderedByUsername(ApplicationsJoinUsers(d))}

User_findAll ==
  Idle /\ \E user \in UserFindAll(db) :
    /\ UNCHANGED db
    /\ last' = Call("User.findAll", <<>>, Return(user), 2)

\* users u LEFT JOIN applications a ON u.username = a.username
\* WHERE u.username = $1
UserJoinApplications(d, usernameFind) ==
  LET Of(u) == {a \in d.applications : a.username = u.username}
      Row(u, jobId, copy) ==
        [username |-> u.username, firstName |-> u.first_name,
         lastName |-> u.last_name, email |-> u.email, isAdmin |-> u.is_admin,
         jobId |-> jobId, copy |-> copy]
  IN UNION {IF Of(u) = {} THEN {Row(u, NullInt, 0)}
            ELSE {Row(u, a.job_id, a.copy) : a \in Of(u)}
            : u \in {u \in d.users : u.username = usernameFind}}

\* what User.get(usernameFind) can return or throw on the tables d
UserGet(d, usernameFind) ==
  IF UserJoinApplications(d, usernameFind) = {}
    THEN {Throw(NotFoundError("No user: " \o usernameFind))}
    ELSE {Return([username |-> rows[1].username, firstName |-> rows[1].firstName,
                  lastName |-> rows[1].lastName, email |-> rows[1].email,
                  isAdmin |-> rows[1].isAdmin,
                  jobsApplied |-> [i \in DOMAIN rows |-> rows[i].jobId]])
          : rows \in RowOrders(UserJoinApplications(d, usernameFind))}

User_get ==
  Idle /\ \E usernameFind \in Usernames :
    \E result \in UserGet(db, usernameFind) :
      /\ UNCHANGED db
      /\ last' = Call("User.get", usernameFind, result, 1)

\* INSERT INTO applications (username, job_id) VALUES ($1, $2)
\* RETURNING username, job_id: the outcomes on the tables d. Whether the
\* table has a key on (username, job_id) is left open: a pair that is
\* already there is either refused by the key or stored once more.
InsertApplication(d, username, jobId) ==
  LET same == {a \in d.applications : a.username = username /\ a.job_id = jobId}
      row == [username |-> username, job_id |-> jobId,
              copy |-> Cardinality(same) + 1]
  IN {Write([d EXCEPT !.applications = @ \cup {row}],
            {[username |-> username, job_id |-> jobId]})
        : x \in IF Cardinality(same) < MaxCopies THEN {1} ELSE {}}
     \cup {[error |-> "23505", rows |-> {}] : x \in IF same # {} THEN {1} ELSE {}}

\* faulty variant: the pair handed back without a row stored
UserApplyForJob_NotStored(d, username, jobId) ==
  {[db |-> d, result |-> Return([username |-> username, job_id |-> jobId])]}

\* what User.applyForJob(username, jobId) does on the tables d
UserApplyForJob(d, username, jobId) ==
  {IF results.error # ""
     THEN [db |-> d, result |-> Throw(DatabaseError(results.error))]
     ELSE [db |-> results.db, result |-> Return(FirstRow(results.rows))]
   : results \in InsertApplication(d, username, jobId)}

User_applyForJob ==
  Idle /\ \E username \in Usernames, jobId \in JobIds :
    \E done \in UserApplyForJob(db, username, jobId) :
      /\ db' = done.db
      /\ last' = Call("User.applyForJob", [username |-> username, jobId |-> jobId],
                      done.result, 1)

(***************************************************************************)
(* routes/users.js: the routes on /users/:username.                        *)
(***************************************************************************)
\* res.locals.user: the payload of the bearer token, undefined without one
Requesters == {Undefined} \cup [username : Usernames, isAdmin : BOOLEAN]

\* ensureLoggedIn: a request without a user is turned away
EnsureLoggedIn(user) ==
  IF user = Undefined THEN Throw(UnauthorizedError("Unauthorized")) ELSE Return(user)

\* faulty variant: nobody but the user named in the path gets through
NotSelfNorAdmin_SelfOnly(user, username) == user.username # username

\* res.locals.user.username !== req.params.username &&
\* res.locals.user.isAdmin === false
NotSelfNorAdmin(user, username) == user.username # username /\ user.isAdmin = FALSE

\* res.json({ [key]: value }) of what the method returned, next(err) of what
\* it threw
Json(key, result) ==
  IF result.kind = "return" THEN Return([k \in {key} |-> result.value]) ELSE result

\* the handler up to the call of the User method: the middleware, then the
\* check of the requester against the path
Admitted(user, username) ==
  IF EnsureLoggedIn(user).kind = "throw" THEN EnsureLoggedIn(user)
  ELSE IF NotSelfNorAdmin(user, username) THEN Throw(UnauthorizedError("Unauthorized"))
  ELSE Return(user)

\* router.get("/:username", ensureLoggedIn, ...)
Route_get ==
  Idle /\ \E user \in Requesters, username \in Usernames :
    LET args == [user |-> user, username |-> username]
    IN /\ UNCHANGED db
       /\ IF Admitted(user, username).kind = "throw"
            THEN last' = Call("GET /users/:username", args, Admitted(user, username), 0)
            ELSE \E result \in UserGet(db, username) :
                   last' = Call("GET /users/:username", args, Json("user", result), 1)

\* bodies that pass the userUpdate schema
Bodies ==
  Objects(Property("firstName", FirstNames) \cup Property("password", {"pw2"}), 1)

\* router.patch("/:username", ensureLoggedIn, ...)
Route_patch ==
  Idle /\ \E user \in Requesters, username \in Usernames, body \in Bodies :
    LET args == [user |-> user, username |-> username, body |-> body]
    IN IF Admitted(user, username).kind = "throw"
         THEN /\ last' = Call("PATCH /users/:username", args, Admitted(user, username), 0)
              /\ UNCHANGED db
         ELSE \E salt \in IF TruthyText(body, "password") THEN Salts ELSE {""} :
                \E done \in {UpdateOutcome(db,
                               sqlForPartialUpdate(HashPassword(body, salt), UserJsToSql),
                               "users", "username", username, "No user: " \o username)} :
                  /\ db' = done.db
                  /\ last' = Call("PATCH /users/:username", args,
                                  Json("user", done.result), done.queries)

\* router.delete("/:username", ensureLoggedIn, ...)
Route_delete ==
  Idle /\ \E user \in Requesters, username \in Usernames :
    LET args == [user |-> user, username |-> username]
    IN IF Admitted(user, username).kind = "throw"
         THEN /\ last' = Call("DELETE /users/:username", args, Admitted(user, username), 0)
              /\ UNCHANGED db
         ELSE \E done \in {UserRemove(db, username)} :
                /\ db' = done.db
                /\ last' = Call("DELETE /users/:username", args,
                     IF done.result.kind = "throw" THEN done.result
                     ELSE Return([deleted |-> username]), 1)

\* req.params.id, a text of the path
IdTexts == {ToString(id) : id \in JobIds}

\* router.post("/:username/jobs/:id", ensureLoggedIn, ...); the store reads
\* the id text as the integer of the job_id column
Route_apply ==
  Idle /\ \E user \in Requesters, username \in Usernames, id \in IdTexts :
    LET args == [user |-> user, username |-> username, id |-> id]
    IN IF Admitted(user, username).kind = "throw"
         THEN /\ last' = Call("POST /users/:username/jobs/:id", args,
                              Admitted(user, username), 0)
              /\ UNCHANGED db
         ELSE \E done \in UserApplyForJob(db, username, ParseInt(id)) :
                /\ db' = done.db
                /\ last' = Call("POST /users/:username/jobs/:id", args,
                     IF done.result.kind = "throw" THEN done.result
                     ELSE Return([applied |-> done.result.value.job_id]), 1)

(***************************************************************************)
(* helpers/sql.js called on its own.                                       *)
(***************************************************************************)
SqlData ==
  Objects(UNION {Property(k, {"x", "y"}) : k \in {"firstName", "email", "1", "2"}},
          MaxKeys)

SqlJsToSql == {<<>>, UserJsToSql, CompanyJsToSql, <<<<"email", "">>>>}

Sql_call ==
  Idle /\ \E dataToUpdate \in SqlData, jsToSql \in SqlJsToSql :
    /\ UNCHANGED db
    /\ last' = Call("sqlForPartialUpdate",
                    [dataToUpdate |-> dataToUpdate, jsToSql |-> jsToSql],
                    sqlForPartialUpdate(dataToUpdate, jsToSql), 0)

(***************************************************************************)
(* Specifications.                                                         *)
(***************************************************************************)
\* the caller takes the response
Respond ==
  /\ ~Idle
  /\ last' = NoCall
  /\ UNCHANGED db

Init ==
  /\ db = EmptyStore
  /\ last = NoCall

\* jobs that carry equity: the ones the Company repository is run on
WithEquity == last'.args.equity = "0.5"

NextCompany ==
  \/ Company_create
  \/ Company_findAll
  \/ Company_get
  \/ Company_update
  \/ Company_remove
  \/ Job_create /\ WithEquity
  \/ Job_update
  \/ Job_remove
  \/ Respond

SpecCompany == Init /\ [][NextCompany]_vars

NextUser ==
  \/ User_register
  \/ User_authenticate
  \/ User_findAll
  \/ User_get
  \/ User_update
  \/ User_remove
  \/ Respond

SpecUser == Init /\ [][NextUser]_vars

NextSql ==
  \/ Sql_call
  \/ Respond

SpecSql == Init /\ [][NextSql]_vars

RowCount(d) ==
  Cardinality(d.companies) + Cardinality(d.jobs) + Cardinality(d.users)
    + Cardinality(d.applications)

\* the three repositories side by side, on a store of at most MaxRows rows
Next ==
  \/ RowCount(db) < MaxRows /\ Company_create
  \/ RowCount(db) < MaxRows /\ Job_create /\ WithEquity
  \/ RowCount(db) < MaxRows /\ User_register
  \/ RowCount(db) < MaxRows /\ User_applyForJob
  \/ Company_findAll
  \/ Company_get
  \/ Company_update
  \/ Company_remove
  \/ Job_findAll
  \/ Job_get
  \/ Job_update
  \/ Job_remove
  \/ User_authenticate
  \/ User_findAll
  \/ User_get
  \/ User_update
  \/ User_remove
  \/ RowCount(db) = 0 /\ Sql_call
  \/ Respond

Spec == Init /\ [][Next]_vars

(***************************************************************************)
(* Two create calls for one identifier in flight together: each awaits its *)
(* duplicate check, then its INSERT, and the store serves the statements   *)
(* of the two calls in any order.                                          *)
(***************************************************************************)
CompanyArgs ==
  [handle : Handles, name : Names, description : Descriptions,
   numEmployees : Employees, logoUrl : LogoUrls]

UserArgs ==
  [username : Usernames, password : Passwords, firstName : FirstNames,
   lastName : LastNames, email : Emails, isAdmin : BOOLEAN]

\* the two calls are made; each is about to send its duplicate check
Concurrent_create ==
  /\ Idle
  /\ \E first, second \in CompanyArgs :
       /\ first.handle = second.handle
       /\ last' = [op |-> "Company.create, twice", before |-> db,
                   tableName |-> "companies", keyCol |-> "handle",
                   key |-> first.handle,
                   calls |-> <<[args |-> first, at |-> "duplicateCheck"],
                               [args |-> second, at |-> "duplicateCheck"]>>]
  /\ UNCHANGED db

Concurrent_register ==
  /\ Idle
  /\ \E first, second \in UserArgs :
       /\ first.username = second.username
       /\ last' = [op |-> "User.register, twice", before |-> db,
                   tableName |-> "users", keyCol |-> "username",
                   key |-> first.username,
                   calls |-> <<[args |-> first, at |-> "duplicateCheck"],
                               [args |-> second, at |-> "duplicateCheck"]>>]
  /\ UNCHANGED db

InFlight == last.op \in {"Company.create, twice", "User.register, twice"}

\* const duplicateCheck = await db.query(SELECT ...); if (duplicateCheck.rows[0])
\* throw new BadRequestError(...)
Concurrent_duplicateCheck ==
  /\ InFlight
  /\ \E i \in DOMAIN last.calls :
       /\ last.calls[i].at = "duplicateCheck"
       /\ LET duplicateCheck == SelectByKey(db[last.tableName], last.keyCol, last.key)
              message == IF last.tableName = "companies" THEN "Duplicate company: "
                         ELSE "Duplicate username: "
          IN last' = [last EXCEPT !.calls[i] =
               IF duplicateCheck # {}
                 THEN [args |-> @.args, at |-> "done", checked |-> duplicateCheck,
                       result |-> Throw(BadRequestError(message \o last.key))]
                 ELSE [args |-> @.args, at |-> "insert", checked |-> duplicateCheck]]
  /\ UNCHANGED db

\* the row a call inserts; a register call hashes the password first
InsertedRow(tableName, args, salt) ==
  IF tableName = "companies"
    THEN [handle |-> args.handle, name |-> args.name, description |-> args.description,
          num_employees |-> args.numEmployees, logo_url |-> args.logoUrl]
    ELSE [username |-> args.username, password |-> bcrypt_hash(args.password, salt),
          first_name |-> args.firstName, last_name |-> args.lastName,
          email |-> args.email, is_admin |-> args.isAdmin]

\* const result = await db.query(INSERT ... RETURNING ...); return result.rows[0]
Concurrent_insert ==
  /\ InFlight
  /\ \E i \in DOMAIN last.calls :
       /\ last.calls[i].at = "insert"
       /\ \E salt \in IF last.tableName = "users" THEN Salts ELSE {""} :
            LET result == ExecInsert(db, last.tableName, last.keyCol,
                                     InsertedRow(last.tableName, last.calls[i].args, salt))
            IN IF result.error # ""
                 THEN /\ last' = [last EXCEPT !.calls[i] =
                            [args |-> @.args, at |-> "done", checked |-> @.checked,
                             result |-> Throw(DatabaseError(result.error))]]
                      /\ UNCHANGED db
                 ELSE /\ last' = [last EXCEPT !.calls[i] =
                            [args |-> @.args, at |-> "done", checked |-> @.checked,
                             result |-> Return(Returning(last.tableName,
                                                         FirstRow(result.rows)))]]
                      /\ db' = result.db

BothDone == InFlight /\ \A i \in DOMAIN last.calls : last.calls[i].at = "done"

\* the callers take the two responses
Concurrent_respond ==
  /\ BothDone
  /\ last' = NoCall
  /\ UNCHANGED db

NextConcurrent ==
  \/ RowCount(db) < MaxRows /\ Concurrent_create
  \/ RowCount(db) < MaxRows /\ Concurrent_register
  \/ Concurrent_duplicateCheck
  \/ Concurrent_insert
  \/ Concurrent_respond

SpecConcurrent == Init /\ [][NextConcurrent]_vars

\* one company per handle, one job per company and title, one user per
\* username: the rows the applications are made on
SeedCompany ==
  /\ last'.args.name = "Acme"
  /\ last'.args.numEmployees = 1

SeedJob ==
  /\ last'.args.title = "Dev"
  /\ last'.args.equity = "0.5"

SeedUser ==
  /\ last'.args.password = "pw1"
  /\ ~last'.args.isAdmin
  /\ \A u \in db'.users \ db.users : u.password = bcrypt_hash("pw1", "a")

\* the Job repository on the companies of the seed
NextJob ==
  \/ Company_create /\ SeedCompany
  \/ Job_create
  \/ Job_findAll
  \/ Job_get
  \/ Job_update
  \/ Job_remove
  \/ Respond

SpecJob == Init /\ [][NextJob]_vars

\* users applying for jobs, on the rows of the seed
NextApplications ==
  \/ Company_create /\ SeedCompany
  \/ Job_create /\ SeedJob
  \/ User_register /\ SeedUser
  \/ Cardinality(db.applications) < MaxApplications /\ User_applyForJob
  \/ User_findAll
  \/ User_get
  \/ User_remove
  \/ Job_get
  \/ Job_remove
  \/ Company_get
  \/ Company_remove
  \/ Respond

SpecApplications == Init /\ [][NextApplications]_vars

\* the routes on /users/:username, over users, and jobs of company c1, of
\* the seed
NextRoutes ==
  \/ Company_create /\ SeedCompany /\ last'.args.handle = "c1"
  \/ Job_create /\ SeedJob /\ last'.args.companyHandle = "c1"
  \/ User_register /\ SeedUser
  \/ Route_get
  \/ Route_patch
  \/ Route_delete
  \/ Cardinality(db.applications) < MaxApplications /\ Route_apply
  \/ Respond

SpecRoutes == Init /\ [][NextRoutes]_vars

(***************************************************************************)
(* Properties.                                                             *)
(***************************************************************************)
Returned == ~Idle /\ last.result.kind = "return"
Threw(e) == ~Idle /\ last.result = Throw(e)

NoData == BadRequestError("No data")

\* the segment `"column"=$k` of the key at position i of data
Segment(data, jsToSql, i, k) ==
  "\"" \o ColumnOf(jsToSql, data[i][1]) \o "\"=$" \o ToString(k)

\* the clause and the values pair the keys of data, taken in the order
\* order, with $1, $2, ...
PairedInOrder(data, jsToSql, clause, order) ==
  LET segs == Split(clause.setCols, ", ")
  IN /\ Len(segs) = Len(data)
     /\ Len(clause.values) = Len(data)
     /\ \A k \in 1..Len(data) :
          /\ segs[k] = Segment(data, jsToSql, order[k], k)
          /\ clause.values[k] = data[order[k]][2]

HelperCalled ==
  last.op = "sqlForPartialUpdate" /\ Len(last.args.dataToUpdate) > 0

\* C1, as stated: for a non-empty mapping sqlForPartialUpdate returns one
\* "column"=$k segment per key, joined by ", ", the k-th key in insertion
\* order carrying $k, and the values in that same insertion order.
C1_InsertionOrder ==
  HelperCalled =>
    /\ Returned
    /\ PairedInOrder(last.args.dataToUpdate, last.args.jsToSql, last.result.value,
                     [k \in 1..Len(last.args.dataToUpdate) |-> k])

\* C1, amended: the same, with the keys taken in own-property order:
\* array-index keys first, in ascending numeric order, then the others in
\* insertion order.
C1_OwnPropertyOrder ==
  HelperCalled =>
    /\ Returned
    /\ PairedInOrder(last.args.dataToUpdate, last.args.jsToSql, last.result.value,
                     OwnPropertyOrder(last.args.dataToUpdate))

C1_Witness ==
  /\ HelperCalled
  /\ Returned
  /\ Len(last.args.dataToUpdate) = 2
  /\ IsArrayIndex(last.args.dataToUpdate[2][1])
  /\ HasKey(last.args.jsToSql, last.args.dataToUpdate[1][1])

UpdateOps == {"Company.update", "Job.update", "User.update"}

\* C2: sqlForPartialUpdate of an empty mapping throws BadRequestError
\* "No data" whatever the column mapping; the three update methods called
\* with empty data throw it with no statement sent and the store as it was.
C2_EmptyDataRejected ==
  /\ (last.op = "sqlForPartialUpdate" /\ Len(last.args.dataToUpdate) = 0)
       => Threw(NoData)
  /\ (last.op \in UpdateOps /\ Len(last.args.data) = 0)
       => Threw(NoData) /\ last.queries = 0 /\ db = last.before

C2_Witness ==
  /\ last.op = "User.update"
  /\ Len(last.args.data) = 0
  /\ \E r \in db.users : r.username = last.args.username
  /\ Threw(NoData)

\* C3: Company.findAll with minEmployees and maxEmployees both supplied and
\* minEmployees > maxEmployees, a bound of 0 included, throws BadRequestError
\* and sends no statement.
C3_MinAboveMaxRejected ==
  (/\ last.op = "Company.findAll"
   /\ HasKey(last.args, "minEmployees")
   /\ HasKey(last.args, "maxEmployees")
   /\ Get(last.args, "minEmployees") > Get(last.args, "maxEmployees"))
    => /\ Threw(BadRequestError("Min Employees cannot be greater than Max Employees"))
       /\ last.queries = 0

JobsUnder(d, handle) == {j \in d.jobs : j.company_handle = handle}

\* C4: Company.get of a company without jobs returns an empty jobs list.
C4_NoJobsEmptyList ==
  (last.op = "Company.get" /\ Returned /\ JobsUnder(db, last.args) = {})
    => Len(last.result.value.jobs) = 0

JobEntry(j) == [id |-> j.id, title |-> j.title, salary |-> j.salary, equity |-> j.equity]

UpdateOfMissing ==
  /\ last.op \in UpdateOps
  /\ Len(last.args.data) > 0
  /\ \/ last.op = "Company.update"
        /\ SelectByKey(last.before.companies, "handle", last.args.handle) = {}
     \/ last.op = "Job.update"
        /\ SelectByKey(last.before.jobs, "id", last.args.id) = {}
     \/ last.op = "User.update"
        /\ SelectByKey(last.before.users, "username", last.args.username) = {}

\* C6: Company.update, Job.update and User.update with non-empty data on an
\* identifier the store does not hold throw NotFoundError and leave every
\* stored record as it was.
C6_MissingIsNotFound ==
  UpdateOfMissing
    => /\ ~Idle /\ last.result.kind = "throw"
       /\ last.result.error.name = "NotFoundError"
       /\ db = last.before

Unauthorized == UnauthorizedError("Invalid username/password")

\* the password is the one the stored hash of the user was made from
Matches(d, username, password) ==
  \E r \in d.users, salt \in Salts :
    r.username = username /\ r.password = bcrypt_hash(password, salt)

\* C7: User.authenticate throws one and the same UnauthorizedError when the
\* username is unknown and when the password does not match the stored hash
\* (never NotFoundError), and returns a user only when the password matches.
C7_UnauthorizedAlike ==
  last.op = "User.authenticate" =>
    /\ ~Matches(db, last.args.username, last.args.password) => Threw(Unauthorized)
    /\ Returned => /\ Matches(db, last.args.username, last.args.password)
                   /\ last.result.value.username = last.args.username

C7_Witness ==
  /\ last.op = "User.authenticate"
  /\ \E r \in db.users : r.username = last.args.username
  /\ \E q \in Passwords : Matches(db, last.args.username, q)
  /\ Threw(Unauthorized)

\* C8: Company.create with a handle the store holds and User.register with a
\* username the store holds throw BadRequestError (duplicate), and the stored
\* record, the password hash of a user included, stays as it was.
C8_DuplicateRejected ==
  /\ (/\ last.op = "Company.create"
      /\ \E r \in last.before.companies : r.handle = last.args.handle)
       => /\ Threw(BadRequestError("Duplicate company: " \o last.args.handle))
          /\ db = last.before
  /\ (/\ last.op = "User.register"
      /\ \E r \in last.before.users : r.username = last.args.username)
       => /\ Threw(BadRequestError("Duplicate username: " \o last.args.username))
          /\ db = last.before

C8_Witness ==
  /\ last.op = "User.register"
  /\ \E r \in last.before.users : r.username = last.args.username
  /\ ~Matches(last.before, last.args.username, last.args.password)
  /\ Threw(BadRequestError("Duplicate username: " \o last.args.username))

\* C9: after User.update with a password p has returned, authenticate with p
\* succeeds and with any other password fails, and the returned record has
\* no password field.
C9_NewPasswordAuthenticates ==
  (last.op = "User.update" /\ Returned /\ HasKey(last.args.data, "password")) =>
    /\ authenticate(db, last.args.username, Get(last.args.data, "password")).kind
         = "return"
    /\ \A q \in Passwords \ {Get(last.args.data, "password")} :
         authenticate(db, last.args.username, q).kind = "throw"
    /\ "password" \notin DOMAIN last.result.value

KeysOfJobs(d) == {<<j.id, j.company_handle>> : j \in d.jobs}

\* C10: Job.update alters no job's id or company, whatever the data mapping.
C10_IdAndCompanyKept ==
  last.op = "Job.update" => KeysOfJobs(db) = KeysOfJobs(last.before)

\* the job ids of the applications the tables hold for a user
AppliedJobIds(d, username) ==
  {a.job_id : a \in {a \in d.applications : a.username = username}}

\* C11: the jobsApplied of a record User.get returns holds exactly the job
\* ids of the user's stored applications, and is the empty list, with no null
\* entry in it, for a user without applications.
C11_JobsAppliedOfTheUser ==
  (last.op = "User.get" /\ Returned) =>
    /\ Range(last.result.value.jobsApplied) = AppliedJobIds(db, last.args)
    /\ AppliedJobIds(db, last.args) = {} => last.result.value.jobsApplied = <<>>

\* the records a User method has handed back
ReturnedUsers ==
  IF ~Returned THEN {}
  ELSE IF last.op \in {"User.authenticate", "User.register", "User.get", "User.update"}
    THEN {last.result.value}
  ELSE IF last.op = "User.findAll" THEN Range(last.result.value)
  ELSE {}

\* the password texts the users table holds or held before the call
StoredPasswords == {u.password : u \in db.users \cup last.before.users}

\* C12: a record returned by User.authenticate, register, findAll, get or
\* update has no password field, and none of its fields is a stored hash.
C12_NoPasswordReturned ==
  \A user \in ReturnedUsers :
    /\ DOMAIN user \subseteq
         {"username", "firstName", "lastName", "email", "isAdmin", "jobsApplied"}
    /\ \A k \in DOMAIN user \cap {"username", "firstName", "lastName", "email"} :
         user[k] \notin StoredPasswords

C12_Witness ==
  /\ last.op = "User.authenticate"
  /\ Returned
  /\ \E u \in db.users : u.username = last.result.value.username /\ u.password # ""

\* C13: whatever User.register and User.update calls have been made, the
\* password stored for a user is an output of the hash, never the text the
\* caller supplied, the empty text included.
C13_StoredPasswordHashed ==
  \A u \in db.users :
    /\ \E password \in Passwords, salt \in Salts :
         u.password = bcrypt_hash(password, salt)
    /\ u.password \notin Passwords

\* C14: a repository method that fails, fails with BadRequestError,
\* NotFoundError or UnauthorizedError, never with an error of the store:
\* so Job.create for a company that does not exist, and User.applyForJob for
\* a user or a job that does not exist.
C14_FailsWithKnownKind ==
  (~Idle /\ last.result.kind = "throw") =>
    last.result.error.name \in {"BadRequestError", "NotFoundError", "UnauthorizedError"}

\* both calls passed their duplicate check before either inserted
Interleaved == BothDone /\ \A i \in DOMAIN last.calls : last.calls[i].checked = {}

\* C15: when two Company.create calls, or two User.register calls, for one
\* identifier interleave between the lookup and the insert, the store ends
\* with exactly one record of the identifier, one call returns that record,
\* and the other call fails with the BadRequestError of the duplicate check.
C15_OneCreatedOtherDuplicate ==
  Interleaved =>
    LET stored == SelectByKey(db[last.tableName], last.keyCol, last.key)
        duplicate == BadRequestError(
          (IF last.tableName = "companies" THEN "Duplicate company: "
           ELSE "Duplicate username: ") \o last.key)
    IN /\ Cardinality(stored) = 1
       /\ \E i \in DOMAIN last.calls :
            /\ last.calls[i].result = Return(Returning(last.tableName, Only(stored)))
            /\ last.calls[3 - i].result = Throw(duplicate)

(***************************************************************************)
(* C16: on GET, PATCH and DELETE /users/:username and on                   *)
(* POST /users/:username/jobs/:id a logged-in requester who is neither the *)
(* user of the path nor an admin gets Unauthorized, no statement reaches   *)
(* the store and the store is as it was; a requester who is that user or   *)
(* an admin does not get Unauthorized.                                     *)
(***************************************************************************)
UsersRoutes ==
  {"GET /users/:username", "PATCH /users/:username", "DELETE /users/:username",
   "POST /users/:username/jobs/:id"}

RoutedLoggedIn == ~Idle /\ last.op \in UsersRoutes /\ last.args.user # Undefined

SelfOrAdmin == last.args.user.username = last.args.username \/ last.args.user.isAdmin

C16_WitnessAdmin ==
  /\ RoutedLoggedIn /\ last.args.user.isAdmin
  /\ last.args.user.username # last.args.username
  /\ last.op = "DELETE /users/:username"
  /\ last.result = Return([deleted |-> last.args.username])
  /\ Cardinality(db.users) < Cardinality(last.before.users)

(***************************************************************************)
(* C17: the list Company.findAll returns holds exactly the stored          *)
(* companies that meet every criterion the query carries (name contained   *)
(* without regard to case, minEmployees <= numEmployees,                   *)
(* numEmployees <= maxEmployees), each once, in the order of their names;  *)
(* a query without criteria returns every company.                         *)
(***************************************************************************)
CompanyMeets(r, query) ==
  /\ HasKey(query, "name") => ILikeContains(r.name, Get(query, "name"))
  /\ HasKey(query, "minEmployees") => r.num_employees >= Get(query, "minEmployees")
  /\ HasKey(query, "maxEmployees") => r.num_employees <= Get(query, "maxEmployees")

C17_ExactlyTheMatching ==
  (last.op = "Company.findAll" /\ Returned) =>
    LET found == last.result.value
        meet == {r \in db.companies : CompanyMeets(r, last.args)}
    IN /\ {found[i] : i \in DOMAIN found} = {CompanyRecord(r) : r \in meet}
       /\ Len(found) = Cardinality(meet)
       /\ \A i, j \in DOMAIN found : i < j => TextLeq(found[i].name, found[j].name)

(***************************************************************************)
(* C18: the list Job.findAll returns holds exactly the stored jobs that    *)
(* meet every criterion the query carries: title contained without regard  *)
(* to case, minSalary <= salary, and equity > 0 when hasEquity is true;    *)
(* hasEquity false or absent, like a query without criteria, leaves out    *)
(* no job.                                                                 *)
(***************************************************************************)
JobMeets(r, query) ==
  /\ HasKey(query, "title") => ILikeContains(r.title, Get(query, "title"))
  /\ HasKey(query, "minSalary") =>
       r.salary # NullInt /\ r.salary >= Get(query, "minSalary")
  /\ (HasKey(query, "hasEquity") /\ Get(query, "hasEquity") \in {JsTrue, "true"}) =>
       r.equity # NullText /\ NumericAbove(r.equity, 0)

C18_ExactlyTheMatchingJobs ==
  (last.op = "Job.findAll" /\ Returned) =>
    LET found == last.result.value
        meet == {r \in db.jobs : JobMeets(r, last.args)}
    IN /\ {found[i] : i \in DOMAIN found} = {JobRecord(r) : r \in meet}
       /\ Len(found) = Cardinality(meet)

(***************************************************************************)
(* C19: Company.remove, Job.remove and User.remove of an identifier that   *)
(* is not stored throw NotFoundError and leave the store as it was; of a   *)
(* stored one they return, the entity is gone and every other entity of    *)
(* its kind is still there (of the other tables only the rows that hang    *)
(* on the removed entity go with it), and on the store they leave, get of  *)
(* the identifier throws NotFoundError and so does a second remove.        *)
(***************************************************************************)
Removals == {"Company.remove", "Job.remove", "User.remove"}

\* the tables before, without the entity the call names and what hangs on it
Without(d, op, key) ==
  IF op = "Company.remove"
    THEN LET jobs == {j \in d.jobs : j.company_handle # key}
         IN [d EXCEPT !.companies = {c \in @ : c.handle # key},
                      !.jobs = jobs,
                      !.applications = {a \in @ : \E j \in jobs : j.id = a.job_id}]
  ELSE IF op = "Job.remove"
    THEN [d EXCEPT !.jobs = {j \in @ : j.id # key},
                   !.applications = {a \in @ : a.job_id # key}]
  ELSE [d EXCEPT !.users = {u \in @ : u.username # key},
                 !.applications = {a \in @ : a.username # key}]

Stored(d, op, key) ==
  IF op = "Company.remove" THEN \E c \in d.companies : c.handle = key
  ELSE IF op = "Job.remove" THEN \E j \in d.jobs : j.id = key
  ELSE \E u \in d.users : u.username = key

NotFoundFor(op, key) ==
  IF op = "Company.remove" THEN NotFoundError("No company: " \o key)
  ELSE IF op = "Job.remove" THEN NotFoundError("No job id: " \o ToString(key))
  ELSE NotFoundError("No user: " \o key)

GetAfter(d, op, key) ==
  IF op = "Company.remove" THEN CompanyGet(d, key)
  ELSE IF op = "Job.remove" THEN {JobGet(d, key)}
  ELSE UserGet(d, key)

RemoveAfter(d, op, key) ==
  IF op = "Company.remove" THEN CompanyRemove(d, key)
  ELSE IF op = "Job.remove" THEN JobRemove(d, key)
  ELSE UserRemove(d, key)

C19_RemoveExactlyThat ==
  (~Idle /\ last.op \in Removals) =>
    IF Stored(last.before, last.op, last.args)
      THEN /\ Returned
           /\ db = Without(last.before, last.op, last.args)
           /\ GetAfter(db, last.op, last.args) = {Throw(NotFoundFor(last.op, last.args))}
           /\ RemoveAfter(db, last.op, last.args)
                = [db |-> db, result |-> Throw(NotFoundFor(last.op, last.args))]
      ELSE /\ Threw(NotFoundFor(last.op, last.args))
           /\ db = last.before

\* one of two registered users, who had applied for a job, is removed
C19_Witness ==
  /\ last.op = "User.remove" /\ Returned
  /\ Cardinality(last.before.users) = 2
  /\ Cardinality(db.users) = 1
  /\ \E a \in last.before.applications : a.username = last.args

(***************************************************************************)
(* C20: an update that returns has changed, of the addressed row, only    *)
(* the columns whose keys the data carries, each now the supplied value,   *)
(* and no other row of any table; it returns the row as now stored.        *)
(***************************************************************************)
Updates == {"Company.update", "Job.update", "User.update"}

UpdatedTable(op) ==
  IF op = "Company.update" THEN "companies"
  ELSE IF op = "Job.update" THEN "jobs" ELSE "users"

\* the row the call addresses, in the tables d
Addressed(d, op, args) ==
  IF op = "Company.update" THEN {r \in d.companies : r.handle = args.handle}
  ELSE IF op = "Job.update" THEN {r \in d.jobs : r.id = args.id}
  ELSE {r \in d.users : r.username = args.username}

\* the column a key of the data names
KeyColumn(op, k) ==
  LET jsToSql == IF op = "Company.update" THEN CompanyJsToSql
                 ELSE IF op = "Job.update" THEN JobJsToSql ELSE UserJsToSql
  IN IF HasKey(jsToSql, k) THEN Get(jsToSql, k) ELSE k

\* the name a column has in a returned record
FieldOf(c) ==
  LET aliases == <<<<"num_employees", "numEmployees">>, <<"logo_url", "logoUrl">>,
                   <<"company_handle", "companyHandle">>, <<"first_name", "firstName">>,
                   <<"last_name", "lastName">>, <<"is_admin", "isAdmin">>>>
  IN IF HasKey(aliases, c) THEN Get(aliases, c) ELSE c

\* the row the update left where the addressed row was
RowAfter ==
  CHOOSE r \in db[UpdatedTable(last.op)] :
    r \notin last.before[UpdatedTable(last.op)]
      \ Addressed(last.before, last.op, last.args)

\* no row but the addressed one has changed, in any table
OnlyAddressedRowChanged ==
  LET tableName == UpdatedTable(last.op)
      others == last.before[tableName] \ Addressed(last.before, last.op, last.args)
  IN /\ others \subseteq db[tableName]
     /\ Cardinality(db[tableName] \ others) = 1
     /\ \A t \in DOMAIN db \ {tableName} : db[t] = last.before[t]

\* columns is the set of columns the data may have changed: of the row
\* left, every column outside it is as before
OnlyColumnsChanged(columns) ==
  \A target \in Addressed(last.before, last.op, last.args) :
    \A c \in DOMAIN RowAfter \ columns : RowAfter[c] = target[c]

KeyedColumns == {KeyColumn(last.op, last.args.data[i][1]) : i \in DOMAIN last.args.data}

\* the columns in cols the data names hold the supplied values
SetToSupplied(cols) ==
  \A i \in DOMAIN last.args.data :
    KeyColumn(last.op, last.args.data[i][1]) \in cols =>
      RowAfter[KeyColumn(last.op, last.args.data[i][1])] = last.args.data[i][2]

\* the returned record is the columns cols of the row left, and nothing else
ReturnsColumns(cols) ==
  /\ DOMAIN last.result.value = {FieldOf(c) : c \in cols}
  /\ \A c \in cols : last.result.value[FieldOf(c)] = RowAfter[c]

C20_OnlyKeysSetToSupplied ==
  (~Idle /\ last.op \in Updates /\ Returned) =>
    /\ OnlyAddressedRowChanged
    /\ OnlyColumnsChanged(KeyedColumns)
    /\ SetToSupplied(DOMAIN RowAfter)
    /\ ReturnsColumns(DOMAIN RowAfter)

\* C20, as the code has it: the password column is left out of what is
\* said of the stored value and of the returned record; it changes only
\* when the data carries the key password.
C20_OnlyKeysSetPasswordApart ==
  (~Idle /\ last.op \in Updates /\ Returned) =>
    /\ OnlyAddressedRowChanged
    /\ OnlyColumnsChanged(KeyedColumns)
    /\ SetToSupplied(DOMAIN RowAfter \ {"password"})
    /\ ReturnsColumns(DOMAIN RowAfter \ {"password"})

\* the password and the admin flag of one of two users are updated
C20_Witness ==
  /\ last.op = "User.update" /\ Returned
  /\ HasKey(last.args.data, "password") /\ HasKey(last.args.data, "isAdmin")
  /\ Cardinality(db.users) = 2
  /\ \A target \in Addressed(last.before, last.op, last.args) :
       /\ target.is_admin # RowAfter.is_admin
       /\ target.password # RowAfter.password

(***************************************************************************)
(* C21: User.applyForJob(username, jobId) for a stored user and a stored   *)
(* job returns the pair, the applications table holds one row more and     *)
(* nothing else has changed; on the store it leaves, jobId is in the       *)
(* jobsApplied that User.get and User.findAll give for the user, and what  *)
(* they give for every other user is what they gave before.                *)
(***************************************************************************)
\* the records User.findAll can hold for a user on the tables d
FindAllRecords(d, username) ==
  {list[i] : list \in UserFindAll(d), i \in 1..Cardinality(d.users)}
    \cap {r \in UNION {Range(list) : list \in UserFindAll(d)} : r.username = username}

AppliesToStored ==
  /\ ~Idle /\ last.op = "User.applyForJob"
  /\ \E u \in last.before.users : u.username = last.args.username
  /\ \E j \in last.before.jobs : j.id = last.args.jobId

ApplicationAdded ==
    /\ last.result = Return([username |-> last.args.username,
                             job_id |-> last.args.jobId])
    /\ Cardinality(db.applications) = Cardinality(last.before.applications) + 1
    /\ last.before.applications \subseteq db.applications
    /\ \A t \in DOMAIN db \ {"applications"} : db[t] = last.before[t]
    /\ \A r \in UserGet(db, last.args.username) :
         r.kind = "return" /\ last.args.jobId \in Range(r.value.jobsApplied)
    /\ \A r \in FindAllRecords(db, last.args.username) :
         last.args.jobId \in Range(r.jobsApplied)
    /\ FindAllRecords(db, last.args.username) # {}
    /\ \A other \in Usernames \ {last.args.username} :
         /\ UserGet(db, other) = UserGet(last.before, other)
         /\ FindAllRecords(db, other) = FindAllRecords(last.before, other)

NotYetApplied ==
  \A a \in last.before.applications :
    ~(a.username = last.args.username /\ a.job_id = last.args.jobId)

ApplicationsOf(d, username) == {a \in d.applications : a.username = username}

C22_OneRecordPerUser ==
  (last.op = "User.findAll" /\ Returned) =>
    LET found == last.result.value
    IN /\ Len(found) = Cardinality(db.users)
       /\ {found[i].username : i \in DOMAIN found} = {u.username : u \in db.users}
       /\ \A i, j \in DOMAIN found :
            i < j => /\ found[i].username # found[j].username
                     /\ TextLeq(found[i].username, found[j].username)
       /\ \A i \in DOMAIN found :
            /\ \E u \in db.users :
                 [k \in DOMAIN found[i] \ {"jobsApplied"} |-> found[i][k]]
                   = Returning("users", u)
            /\ Range(found[i].jobsApplied) = AppliedJobIds(db, found[i].username)
            /\ Len(found[i].jobsApplied)
                 = Cardinality(ApplicationsOf(db, found[i].username))

\* two users are listed, one with two applications and one with none
C22_Witness ==
  /\ last.op = "User.findAll" /\ Returned
  /\ Len(last.result.value) = 2
  /\ \E i, j \in DOMAIN last.result.value :
       /\ Len(last.result.value[i].jobsApplied) = 2
       /\ last.result.value[j].jobsApplied = <<>>

(***************************************************************************)
(* C23: no two stored jobs have the same id; Job.create for a stored       *)
(* company returns, whether or not a job of the same title, salary, equity *)
(* and company is stored already, a record of the data with an id that no  *)
(* stored job has and no earlier call was given, and Job.get of that id    *)
(* gives the record that create returned.                                  *)
(***************************************************************************)
CreatesForStoredCompany ==
  /\ ~Idle /\ last.op = "Job.create"
  /\ \E c \in last.before.companies : c.handle = last.args.companyHandle

C23_DistinctIds ==
  /\ \A j1, j2 \in db.jobs : j1.id = j2.id => j1 = j2
  /\ CreatesForStoredCompany =>
       /\ Returned
       /\ [k \in DOMAIN last.result.value \ {"id"} |-> last.result.value[k]] = last.args
       /\ last.result.value.id > last.before.jobs_id_seq
       /\ \A j \in last.before.jobs : j.id # last.result.value.id
       /\ last.before.jobs \subseteq db.jobs
       /\ Cardinality(db.jobs) = Cardinality(last.before.jobs) + 1
       /\ JobGet(db, last.result.value.id) = Return(last.result.value)

(***************************************************************************)
(* C24: for every stored user, the jobsApplied of the record User.get      *)
(* gives and the jobsApplied of the user's record in the list User.findAll *)
(* gives hold the same entries, as many of each, a user without            *)
(* applications included.                                                  *)
(***************************************************************************)
SameEntries(s, t) == Len(s) = Len(t) /\ Range(s) = Range(t)

C24_GetAgreesWithFindAll ==
  \A u \in db.users :
    \A got \in UserGet(db, u.username) :
      \A listed \in FindAllRecords(db, u.username) :
        /\ got.kind = "return"
        /\ SameEntries(got.value.jobsApplied, listed.jobsApplied)

(***************************************************************************)
(* C25: Company.get, Company.findAll, Job.get, Job.findAll, User.get,      *)
(* User.findAll and User.authenticate leave the store as it was, whether   *)
(* they return or throw, and the same call made again on the store they    *)
(* leave returns what the first returned and throws what the first threw.  *)
(***************************************************************************)
Reads ==
  {"Company.get", "Company.findAll", "Job.get", "Job.findAll", "User.get",
   "User.findAll", "User.authenticate"}

\* what the read op of the arguments args can give on the tables d
ReadOutcomes(d, op, args) ==
  IF op = "Company.get" THEN CompanyGet(d, args)
  ELSE IF op = "Company.findAll" THEN {done.result : done \in CompanyFindAll(d, args)}
  ELSE IF op = "Job.get" THEN {JobGet(d, args)}
  ELSE IF op = "Job.findAll" THEN JobFindAll(d, args)
  ELSE IF op = "User.get" THEN UserGet(d, args)
  ELSE IF op = "User.findAll" THEN {Return(user) : user \in UserFindAll(d)}
  ELSE {authenticate(d, args.username, args.password)}

C25_ReadsRepeatable ==
  (~Idle /\ last.op \in Reads) =>
    /\ db = last.before
    /\ \A again \in ReadOutcomes(db, last.op, last.args) :
         again.kind = last.result.kind => again = last.result

====
